---------------------------- MODULE Spec2Model ----------------------------
(***************************************************************************)
(* The EDU-AI decision engine (src/edu_ai_core.py, class EDUAI) and the    *)
(* numeric domain check of the EDU formula (src/edu_formula.py).           *)
(*                                                                         *)
(* Units.  consciousness_level and the memory's average knowledge weight   *)
(* are held in hundredths (1.0 is 100, +0.2 is 20).  The weights the       *)
(* memory reports are drawn from even numbers of hundredths, so that the   *)
(* halving of line 423 is exact.                                           *)
(*                                                                         *)
(* The numbers of the formula are exact rationals <<n, d>> (d > 0, lowest  *)
(* terms).  A value the code obtains by multiplying with math.pi is held   *)
(* as its rational coefficient of pi: modulation 1/2 stands for pi/2.      *)
(*                                                                         *)
(* The memory collaborator (core.fractal_memory) is not part of the        *)
(* sources: it is modelled as two statistics, memInteractions and          *)
(* memWeight, that its calls read and change.                              *)
(*                                                                         *)
(* Specifications.  Spec: an engine under any caller of think and of the   *)
(* evolution trigger.  LifetimeSpec: a standalone engine over a whole      *)
(* lifetime.  PhaseSpec: think phase by phase.  FormulaSpec and            *)
(* AnalysisSpec: one call of a method that assigns nothing.                *)
(***************************************************************************)
EXTENDS Integers, FiniteSets, Sequences, TLC

VARIABLES
    total_interactions,         \* EDUAI.total_interactions
    consciousness_level,        \* EDUAI.consciousness_level, in hundredths
    knowledge_evolution_stage,  \* EDUAI.knowledge_evolution_stage
    backend_path,               \* EDUAI.backend_path: NoBackend or a path
    memInteractions,            \* memory statistic total_interactions
    memWeight,                  \* memory statistic avg_knowledge_weight
    result,                     \* what the last call returned or reported
    fcall,                      \* the last call of a method that assigns
                                \* nothing, with what it gave
    pc,                         \* the phase a running think has completed
    frame                       \* the local variables of a running think

vars == <<total_interactions, consciousness_level, knowledge_evolution_stage,
          backend_path, memInteractions, memWeight, result, fcall, pc,
          frame>>

\* the state of the engine and of its memory
engine == <<total_interactions, consciousness_level,
            knowledge_evolution_stage, backend_path, memInteractions,
            memWeight, result>>

-----------------------------------------------------------------------------
(* Bounds of the exploration *)

\* think calls followed past each total of InitTotals under Spec
MaxCalls == 3

\* interaction count up to which a lifetime is followed under LifetimeSpec
MaxLifetime == 1002

\* totals the memory may hold when an engine is constructed
InitTotals == {0, 8, 9, 10, 98, 99, 100, 998, 999, 1000}

\* totals from which LifetimeSpec follows an engine
LifetimeTotals == {0, 99}

\* average knowledge weights the memory may report (hundredths, even)
Weights == {40, 100, 260}

\* stimuli, as (number of characters, number of distinct lowercased words)
Stimuli == { [len |-> 0,   words |-> 0],
             [len |-> 11,  words |-> 2],
             [len |-> 300, words |-> 40] }

NoBackend == "None"
BackendPaths == {NoBackend, "/model.gguf"}

\* what running the backend command can do
BackendOutcomes == {"exit0", "nonzero", "timeout"}

Stages == {"nascent", "developing", "mature", "transcendent"}

\* longest list handed to calculate_batch and calculate_numpy
MaxBatch == 2

-----------------------------------------------------------------------------
(* Helpers *)

Min(a, b) == IF a < b THEN a ELSE b
Max(a, b) == IF a > b THEN a ELSE b

\* position of a stage in the documented order
\* nascent -> developing -> mature -> transcendent
StageRank(s) ==
    CASE s = "nascent"      -> 0
      [] s = "developing"   -> 1
      [] s = "mature"       -> 2
      [] s = "transcendent" -> 3

-----------------------------------------------------------------------------
(* Rational arithmetic: what the code computes in floating point *)

Abs(n) == IF n < 0 THEN 0 - n ELSE n

RECURSIVE GCD(_, _)
GCD(a, b) == IF b = 0 THEN a ELSE GCD(b, a % b)

\* n/d in lowest terms, d > 0
Rat(n, d) == LET g == GCD(Abs(n), d) IN <<n \div g, d \div g>>

Num(n) == <<n, 1>>
Zero == Num(0)

RLt(a, b) == a[1] * b[2] < b[1] * a[2]
RLe(a, b) == a[1] * b[2] <= b[1] * a[2]
RMin(a, b) == IF RLt(b, a) THEN b ELSE a
RMax(a, b) == IF RLt(a, b) THEN b ELSE a
RAdd(a, b) == Rat(a[1] * b[2] + b[1] * a[2], a[2] * b[2])
RMul(a, b) == Rat(a[1] * b[1], a[2] * b[2])
\* a / b for b > 0
RDiv(a, b) == Rat(a[1] * b[2], a[2] * b[1])

-----------------------------------------------------------------------------
(* EDUConstants *)

NORMALIZATION_FACTOR == 255

\* 406.4
SCALING_CONSTANT == Rat(4064, 10)

\* NEURAL_BANDS, in the order the dictionary lists them
NEURAL_BANDS ==
    << <<"delta", Rat(1, 2), Num(4)>>,
       <<"theta", Num(4),    Num(8)>>,
       <<"alpha", Num(8),    Num(13)>>,
       <<"beta",  Num(13),   Num(30)>>,
       <<"gamma", Num(30),   Num(100)>> >>

-----------------------------------------------------------------------------
(* EDUFormula.  A call either raises ValueError or returns. *)

Raised(message) == [raised |-> TRUE, error |-> message]

calculate_noampcheck(A, X) ==
    IF RLe(X, Zero) THEN Raised("X must be positive")
    ELSE LET clamped == RMin(A, Num(NORMALIZATION_FACTOR))
         IN  [raised |-> FALSE,
              modulation |-> RDiv(clamped, Num(NORMALIZATION_FACTOR)),
              scaling |-> RDiv(SCALING_CONSTANT, X)]

calculate_noclamp(A, X) ==
    IF RLe(X, Zero) THEN Raised("X must be positive")
    ELSE IF RLt(A, Zero) THEN Raised("A must be non-negative")
    ELSE [raised |-> FALSE,
          modulation |-> RDiv(A, Num(NORMALIZATION_FACTOR)),
          scaling |-> RDiv(SCALING_CONSTANT, X)]

\* modulation is (A / 255) * pi, held as the coefficient of pi
calculate(A, X) ==
    IF RLe(X, Zero) THEN Raised("X must be positive")
    ELSE IF RLt(A, Zero) THEN Raised("A must be non-negative")
    ELSE LET clamped == RMin(A, Num(NORMALIZATION_FACTOR))
         IN  [raised |-> FALSE,
              modulation |-> RDiv(clamped, Num(NORMALIZATION_FACTOR)),
              scaling |-> RDiv(SCALING_CONSTANT, X)]

calculate_combined_sum(A, X) ==
    LET r == calculate(A, X)
    IN  IF r.raised THEN r
        ELSE [raised |-> FALSE, value |-> RAdd(r.modulation, r.scaling)]

\* the product is again a coefficient of pi
calculate_combined(A, X) ==
    LET r == calculate(A, X)
    IN  IF r.raised THEN r
        ELSE [raised |-> FALSE, value |-> RMul(r.modulation, r.scaling)]

calculate_batch_zip(A_values, X_values) ==
    LET n == Min(Len(A_values), Len(X_values))
        rs == [i \in 1..n |-> calculate(A_values[i], X_values[i])]
        bad == {i \in 1..n : rs[i].raised}
    IN  IF bad # {}
        THEN rs[CHOOSE i \in bad : \A j \in bad : i <= j]
        ELSE [raised |-> FALSE,
              results |-> [i \in 1..n |->
                              <<rs[i].modulation, rs[i].scaling>>]]

\* the loop of calculate_batch from pair i on, results being what the
\* pairs before i gave
RECURSIVE batch_loop(_, _, _, _)
batch_loop(A_values, X_values, i, results) ==
    IF i > Len(A_values) THEN [raised |-> FALSE, results |-> results]
    ELSE LET r == calculate(A_values[i], X_values[i])
         IN  IF r.raised THEN r
             ELSE batch_loop(A_values, X_values, i + 1,
                             Append(results, <<r.modulation, r.scaling>>))

calculate_batch(A_values, X_values) ==
    IF Len(A_values) # Len(X_values)
    THEN Raised("A_values and X_values must have same length")
    ELSE batch_loop(A_values, X_values, 1, <<>>)

\* np.clip
clip(a, lo, hi) == RMin(RMax(a, lo), hi)

calculate_numpy_noampcheck(A, X) ==
    IF \E i \in DOMAIN X : RLe(X[i], Zero)
    THEN Raised("All X values must be positive")
    ELSE [raised |-> FALSE,
          modulation |->
              [i \in DOMAIN A |->
                  RDiv(clip(A[i], Zero, Num(NORMALIZATION_FACTOR)),
                       Num(NORMALIZATION_FACTOR))],
          scaling |-> [i \in DOMAIN X |-> RDiv(SCALING_CONSTANT, X[i])]]

\* the arrays are sequences; modulation holds coefficients of pi
calculate_numpy(A, X) ==
    IF \E i \in DOMAIN X : RLe(X[i], Zero)
    THEN Raised("All X values must be positive")
    ELSE IF \E i \in DOMAIN A : RLt(A[i], Zero)
    THEN Raised("All A values must be non-negative")
    ELSE [raised |-> FALSE,
          modulation |->
              [i \in DOMAIN A |->
                  RDiv(clip(A[i], Zero, Num(NORMALIZATION_FACTOR)),
                       Num(NORMALIZATION_FACTOR))],
          scaling |-> [i \in DOMAIN X |-> RDiv(SCALING_CONSTANT, X[i])]]

\* the loop of _classify_neural_band from entry i of the table on
RECURSIVE band_loop_closed_high(_, _)
band_loop_closed_high(frequency, i) ==
    IF i > Len(NEURAL_BANDS) THEN "unknown"
    ELSE IF RLt(NEURAL_BANDS[i][2], frequency)
            /\ RLe(frequency, NEURAL_BANDS[i][3])
         THEN NEURAL_BANDS[i][1]
         ELSE band_loop_closed_high(frequency, i + 1)

RECURSIVE band_loop(_, _)
band_loop(frequency, i) ==
    IF i > Len(NEURAL_BANDS) THEN "unknown"
    ELSE IF RLe(NEURAL_BANDS[i][2], frequency)
            /\ RLt(frequency, NEURAL_BANDS[i][3])
         THEN NEURAL_BANDS[i][1]
         ELSE band_loop(frequency, i + 1)

classify_neural_band_closed_high(frequency) ==
    band_loop_closed_high(frequency, 1)

classify_neural_band(frequency) == band_loop(frequency, 1)

\* np.fft.fftfreq(n, 1 / sampling_rate)[k] for a bin k of the lower half
fftfreq(n, sampling_rate, k) == RDiv(RMul(Num(k), sampling_rate), Num(n))

\* analyze_signal.  What numpy computes from the samples is given:
\*   peak  np.max(np.abs(signal));  n  len(signal);
\*   k     np.argmax(np.abs(fft[:n // 2])), the strongest bin
analyze_signal_zero_passes(peak, n, sampling_rate, k) ==
    LET amplitude == RMul(peak, Num(NORMALIZATION_FACTOR))
        detected == fftfreq(n, sampling_rate, k)
        dominant_freq ==
            IF RLt(detected, Zero) THEN Num(1) ELSE detected
        r == calculate(amplitude, dominant_freq)
    IN  IF r.raised THEN r
        ELSE [raised |-> FALSE,
              amplitude |-> amplitude,
              dominant_frequency |-> dominant_freq,
              edu_modulation |-> r.modulation,
              edu_scaling |-> r.scaling,
              edu_combined |-> RMul(r.modulation, r.scaling),
              neural_band |-> classify_neural_band(dominant_freq),
              signal_length |-> n,
              sampling_rate |-> sampling_rate]

analyze_signal(peak, n, sampling_rate, k) ==
    LET amplitude == RMul(peak, Num(NORMALIZATION_FACTOR))
        detected == fftfreq(n, sampling_rate, k)
        dominant_freq ==
            IF RLe(detected, Zero) THEN Num(1) ELSE detected
        r == calculate(amplitude, dominant_freq)
    IN  IF r.raised THEN r
        ELSE [raised |-> FALSE,
              amplitude |-> amplitude,
              dominant_frequency |-> dominant_freq,
              edu_modulation |-> r.modulation,
              edu_scaling |-> r.scaling,
              edu_combined |-> RMul(r.modulation, r.scaling),
              neural_band |-> classify_neural_band(dominant_freq),
              signal_length |-> n,
              sampling_rate |-> sampling_rate]

-----------------------------------------------------------------------------
(* EDUAI._initialize_consciousness *)

initial_stage_lax(T) ==
    IF T <= 10 THEN "nascent"
    ELSE IF T <= 100 THEN "developing"
    ELSE IF T <= 1000 THEN "mature"
    ELSE "transcendent"

initial_stage(T) ==
    IF T < 10 THEN "nascent"
    ELSE IF T < 100 THEN "developing"
    ELSE IF T < 1000 THEN "mature"
    ELSE "transcendent"

initial_level(T) ==
    IF T < 10 THEN 100
    ELSE IF T < 100 THEN 150
    ELSE IF T < 1000 THEN 200
    ELSE 300

-----------------------------------------------------------------------------
(* EDUAI._analyze_with_edu_consciousness: the inputs handed to the formula *)

AmplitudeOf(stim) == Min(stim.len, 255)

FrequencyOf_nomax(stim) == stim.words

FrequencyOf(stim) == Max(stim.words, 1)

\* EDUFormula.calculate raises ValueError
CalculateRaises(A, X) == X <= 0 \/ A < 0

-----------------------------------------------------------------------------
(* Stimuli as text: a string is the sequence of its characters *)

\* characters str.split() takes as separators
Whitespace == {" ", "\t", "\n"}

\* str.lower(), on one character (the capitals the stimuli here use)
to_lower(c) ==
    CASE c = "A" -> "a"
      [] c = "B" -> "b"
      [] c = "C" -> "c"
      [] c = "D" -> "d"
      [] OTHER   -> c

lower(text) == [i \in DOMAIN text |-> to_lower(text[i])]

\* the words str.split() gives: the maximal runs without whitespace (as a
\* set: line 156 keeps neither their order nor their repetitions)
split(text) ==
    LET n == Len(text)
        starts == {i \in 1..n :
                      /\ text[i] \notin Whitespace
                      /\ (i = 1 \/ text[i - 1] \in Whitespace)}
        last(i) == CHOOSE j \in i..n :
                       /\ (j = n \/ text[j + 1] \in Whitespace)
                       /\ \A k \in i..j : text[k] \notin Whitespace
    IN  {SubSeq(text, i, last(i)) : i \in starts}

\* len(set(word.lower() for word in words))
unique_concepts(text) == Cardinality({lower(word) : word \in split(text)})

\* the two numbers lines 154-157 take from the stimulus
StimulusOf(text) == [len |-> Len(text), words |-> unique_concepts(text)]

\* `pattern in text`
Contains(text, pattern) ==
    \E i \in 1..(Len(text) - Len(pattern) + 1) :
        /\ text[i] = pattern[1]
        /\ SubSeq(text, i, i + Len(pattern) - 1) = pattern

-----------------------------------------------------------------------------
(* EDUAI._analyze_with_edu_consciousness and what it calls.  self is the   *)
(* record of the engine's attributes.  _detect_emotional_context fills a    *)
(* field of the analysis that nothing in the engine reads; it is left out.  *)

creative_indicators ==
    {
      <<"c", "r", "e", "a", "t", "e">>,
      <<"i", "m", "a", "g", "i", "n", "e">>,
      <<"d", "e", "s", "i", "g", "n">>,
      <<"i", "n", "v", "e", "n", "t">>,
      <<"t", "h", "i", "n", "k", " ", "o", "f">>,
      <<"c", "o", "m", "e", " ", "u", "p", " ", "w", "i", "t", "h">>,
      <<"b", "r", "a", "i", "n", "s", "t", "o", "r", "m">>,
      <<"i", "n", "n", "o", "v", "a", "t", "i", "v", "e">>,
      <<"o", "r", "i", "g", "i", "n", "a", "l">>,
      <<"u", "n", "i", "q", "u", "e">>,
      <<"c", "r", "e", "a", "t", "i", "v", "e">> }

assess_creativity_requirement(text) ==
    LET text_lower == lower(text)
        creativity_score ==
            Cardinality({indicator \in creative_indicators :
                            Contains(text_lower, indicator)})
    IN  RMin(Rat(creativity_score, 3), Num(1))

\* rational bounds of math.pi
PI_LOW == Rat(333, 106)
PI_HIGH == Rat(355, 113)

\* the number c * pi, for a value held as its coefficient c of pi; taken at
\* the lower bound, which PiBoundsAgree shows to fall on the same side of
\* every threshold as the upper bound does
TimesPi(c) == RMul(c, PI_LOW)

consciousness_factor_by_count(self, edu_mod, edu_scal) ==
    RMul(RMul(edu_mod, edu_scal), Num(self.total_interactions))

consciousness_factor_per_level(self, edu_mod, edu_scal) ==
    RDiv(RMul(edu_mod, edu_scal), Rat(self.consciousness_level, 100))

\* line 160, as a coefficient of pi
consciousness_factor(self, edu_mod, edu_scal) ==
    RMul(RMul(edu_mod, edu_scal), Rat(self.consciousness_level, 100))

cognitive_mode_of_nonstrict(consciousness_factor_value) ==
    IF RLe(Num(100), consciousness_factor_value) THEN "DEEP_CONTEMPLATION"
    ELSE IF RLe(Num(30), consciousness_factor_value)
    THEN "ANALYTICAL_THINKING"
    ELSE "INTUITIVE_RESPONSE"

\* lines 163-171, on the number the factor is
cognitive_mode_of(consciousness_factor_value) ==
    IF RLt(Num(100), consciousness_factor_value) THEN "DEEP_CONTEMPLATION"
    ELSE IF RLt(Num(30), consciousness_factor_value)
    THEN "ANALYTICAL_THINKING"
    ELSE "INTUITIVE_RESPONSE"

calculate_processing_depth_nonstrict(self, consciousness_factor_value) ==
    LET depth_threshold == RMul(Num(50), Rat(self.consciousness_level, 100))
    IN  IF RLe(RMul(depth_threshold, Num(2)), consciousness_factor_value)
        THEN "TRANSCENDENT"
        ELSE IF RLe(depth_threshold, consciousness_factor_value) THEN "DEEP"
        ELSE IF RLe(RMul(depth_threshold, Rat(1, 2)),
                    consciousness_factor_value)
        THEN "MODERATE"
        ELSE "SURFACE"

calculate_processing_depth_fixed(self, consciousness_factor_value) ==
    LET depth_threshold == Num(50)
    IN  IF RLt(RMul(depth_threshold, Num(2)), consciousness_factor_value)
        THEN "TRANSCENDENT"
        ELSE IF RLt(depth_threshold, consciousness_factor_value) THEN "DEEP"
        ELSE IF RLt(RMul(depth_threshold, Rat(1, 2)),
                    consciousness_factor_value)
        THEN "MODERATE"
        ELSE "SURFACE"

\* _calculate_processing_depth, on the number the factor is
calculate_processing_depth(self, consciousness_factor_value) ==
    LET depth_threshold == RMul(Num(50), Rat(self.consciousness_level, 100))
    IN  IF RLt(RMul(depth_threshold, Num(2)), consciousness_factor_value)
        THEN "TRANSCENDENT"
        ELSE IF RLt(depth_threshold, consciousness_factor_value) THEN "DEEP"
        ELSE IF RLt(RMul(depth_threshold, Rat(1, 2)),
                    consciousness_factor_value)
        THEN "MODERATE"
        ELSE "SURFACE"

\* _analyze_with_edu_consciousness from line 154 on, given what the stimulus
\* contributes: its length and number of distinct words (stim) and its
\* creativity requirement
analyze_stimulus(self, stim, creativity_needed) ==
    LET A == AmplitudeOf(stim)
        X == FrequencyOf(stim)
        edu == calculate(Num(A), Num(X))
    IN  IF edu.raised THEN edu
        ELSE LET factor ==
                     consciousness_factor(self, edu.modulation, edu.scaling)
                 mode == cognitive_mode_of(TimesPi(factor))
             IN  [raised |-> FALSE,
                  A |-> A,
                  X |-> X,
                  edu_consciousness_factor |-> factor,
                  cognitive_mode |-> mode,
                  complexity_level |->
                      CASE mode = "DEEP_CONTEMPLATION" -> "high"
                        [] mode = "ANALYTICAL_THINKING" -> "medium"
                        [] OTHER -> "low",
                  creativity_requirement |-> creativity_needed,
                  processing_depth |->
                      calculate_processing_depth(self, TimesPi(factor))]

analyze_with_edu_consciousness(self, stimulus) ==
    analyze_stimulus(self, StimulusOf(stimulus),
                     assess_creativity_requirement(stimulus))

-----------------------------------------------------------------------------
(* EDUAI._determine_response_strategy *)

base_strategy ==
    [max_tokens |-> Num(512), temperature |-> Rat(8, 10),
     top_k |-> Num(40), top_p |-> Rat(95, 100),
     creativity_boost |-> Num(1), depth_multiplier |-> Num(1)]

determine_response_strategy_at_half(consciousness_analysis, memory_confidence) ==
    LET cognitive_mode == consciousness_analysis.cognitive_mode
        by_mode ==
            CASE cognitive_mode = "DEEP_CONTEMPLATION" ->
                    [base_strategy EXCEPT
                        !.max_tokens = Num(1024),
                        !.temperature = Rat(9, 10),
                        !.top_k = Num(50),
                        !.top_p = Rat(98, 100),
                        !.creativity_boost = Rat(15, 10),
                        !.depth_multiplier = Num(2)]
              [] cognitive_mode = "ANALYTICAL_THINKING" ->
                    [base_strategy EXCEPT
                        !.temperature = Rat(7, 10),
                        !.top_k = Num(35),
                        !.creativity_boost = Rat(12, 10),
                        !.depth_multiplier = Rat(15, 10)]
              [] OTHER ->
                    [base_strategy EXCEPT
                        !.max_tokens = Num(256),
                        !.temperature = Rat(6, 10),
                        !.top_k = Num(30),
                        !.top_p = Rat(90, 100),
                        !.creativity_boost = Rat(8, 10),
                        !.depth_multiplier = Rat(8, 10)]
        creativity_req == consciousness_analysis.creativity_requirement
        boosted ==
            IF RLe(Rat(5, 10), creativity_req)
            THEN [by_mode EXCEPT
                     !.temperature =
                         RMul(@, RAdd(Num(1),
                                      RMul(creativity_req, Rat(3, 10)))),
                     !.creativity_boost =
                         RMul(@, RAdd(Num(1),
                                      RMul(creativity_req, Rat(5, 10))))]
            ELSE by_mode
    IN  IF RLe(Rat(7, 10), memory_confidence)
        THEN [boosted EXCEPT !.depth_multiplier = RMul(@, Rat(13, 10))]
        ELSE boosted

determine_response_strategy_damped(consciousness_analysis, memory_confidence) ==
    LET cognitive_mode == consciousness_analysis.cognitive_mode
        by_mode ==
            CASE cognitive_mode = "DEEP_CONTEMPLATION" ->
                    [base_strategy EXCEPT
                        !.max_tokens = Num(1024),
                        !.temperature = Rat(9, 10),
                        !.top_k = Num(50),
                        !.top_p = Rat(98, 100),
                        !.creativity_boost = Rat(15, 10),
                        !.depth_multiplier = Num(2)]
              [] cognitive_mode = "ANALYTICAL_THINKING" ->
                    [base_strategy EXCEPT
                        !.temperature = Rat(7, 10),
                        !.top_k = Num(35),
                        !.creativity_boost = Rat(12, 10),
                        !.depth_multiplier = Rat(15, 10)]
              [] OTHER ->
                    [base_strategy EXCEPT
                        !.max_tokens = Num(256),
                        !.temperature = Rat(6, 10),
                        !.top_k = Num(30),
                        !.top_p = Rat(90, 100),
                        !.creativity_boost = Rat(8, 10),
                        !.depth_multiplier = Rat(8, 10)]
        creativity_req == consciousness_analysis.creativity_requirement
        boosted ==
            IF RLt(Rat(5, 10), creativity_req)
            THEN [by_mode EXCEPT
                     !.temperature =
                         RMul(@, RAdd(Num(1),
                                      RMul(creativity_req, Rat(0 - 3, 10)))),
                     !.creativity_boost =
                         RMul(@, RAdd(Num(1),
                                      RMul(creativity_req, Rat(5, 10))))]
            ELSE by_mode
    IN  IF RLt(Rat(7, 10), memory_confidence)
        THEN [boosted EXCEPT !.depth_multiplier = RMul(@, Rat(13, 10))]
        ELSE boosted

determine_response_strategy(consciousness_analysis, memory_confidence) ==
    LET cognitive_mode == consciousness_analysis.cognitive_mode
        by_mode ==
            CASE cognitive_mode = "DEEP_CONTEMPLATION" ->
                    [base_strategy EXCEPT
                        !.max_tokens = Num(1024),
                        !.temperature = Rat(9, 10),
                        !.top_k = Num(50),
                        !.top_p = Rat(98, 100),
                        !.creativity_boost = Rat(15, 10),
                        !.depth_multiplier = Num(2)]
              [] cognitive_mode = "ANALYTICAL_THINKING" ->
                    [base_strategy EXCEPT
                        !.temperature = Rat(7, 10),
                        !.top_k = Num(35),
                        !.creativity_boost = Rat(12, 10),
                        !.depth_multiplier = Rat(15, 10)]
              [] OTHER ->
                    [base_strategy EXCEPT
                        !.max_tokens = Num(256),
                        !.temperature = Rat(6, 10),
                        !.top_k = Num(30),
                        !.top_p = Rat(90, 100),
                        !.creativity_boost = Rat(8, 10),
                        !.depth_multiplier = Rat(8, 10)]
        creativity_req == consciousness_analysis.creativity_requirement
        boosted ==
            IF RLt(Rat(5, 10), creativity_req)
            THEN [by_mode EXCEPT
                     !.temperature =
                         RMul(@, RAdd(Num(1),
                                      RMul(creativity_req, Rat(3, 10)))),
                     !.creativity_boost =
                         RMul(@, RAdd(Num(1),
                                      RMul(creativity_req, Rat(5, 10))))]
            ELSE by_mode
    IN  IF RLt(Rat(7, 10), memory_confidence)
        THEN [boosted EXCEPT !.depth_multiplier = RMul(@, Rat(13, 10))]
        ELSE boosted

-----------------------------------------------------------------------------
(* EDUAI._generate_intelligent_response and the two generators *)

generate_with_backend(outcome) ==
    CASE outcome = "exit0"   ->
            [success |-> TRUE, method |-> "backend_enhanced", error |-> "-"]
      [] outcome = "nonzero" ->
            [success |-> FALSE, method |-> "backend_enhanced",
             error |-> "stderr"]
      [] outcome = "timeout" ->
            [success |-> FALSE, method |-> "backend_enhanced",
             error |-> "Response generation timeout"]

generate_pure_edu_response ==
    [success |-> TRUE, method |-> "pure_edu_consciousness", error |-> "-"]

generate_intelligent_response_fallback(path, exists, outcome) ==
    IF path # NoBackend /\ exists /\ outcome = "exit0"
    THEN generate_with_backend(outcome)
    ELSE generate_pure_edu_response

generate_intelligent_response(path, exists, outcome) ==
    IF path # NoBackend /\ exists
    THEN generate_with_backend(outcome)
    ELSE generate_pure_edu_response

\* f"{level:.1f}": the level in tenths, rounded from hundredths (a tie goes
\* to the even tenth when the hundredths are a binary fraction; the levels
\* met here are whole tenths)
format_1f(level) ==
    LET q == level \div 10
        r == level % 10
    IN  IF r < 5 THEN q
        ELSE IF r > 5 THEN q + 1
        ELSE IF q % 2 = 0 THEN q ELSE q + 1

\* str.upper() of a stage name
upper(stage) ==
    CASE stage = "nascent"      -> "NASCENT"
      [] stage = "developing"   -> "DEVELOPING"
      [] stage = "mature"       -> "MATURE"
      [] stage = "transcendent" -> "TRANSCENDENT"

pure_edu_response_counting_this(self) ==
    generate_pure_edu_response @@
    [level_text |-> format_1f(self.consciousness_level),
     interactions |-> self.total_interactions + 1,
     stage_text |-> upper(self.knowledge_evolution_stage)]

\* _generate_pure_edu_response with what its text takes from the engine:
\* the level, the count of previous interactions and the stage
pure_edu_response(self) ==
    generate_pure_edu_response @@
    [level_text |-> format_1f(self.consciousness_level),
     interactions |-> self.total_interactions,
     stage_text |-> upper(self.knowledge_evolution_stage)]

\* _generate_with_backend with what it takes from the engine: the level in
\* the prompt and, in the signature _add_edu_ai_signature appends to a
\* response of depth above 1.5, the stage and the number of the interaction
backend_response(self, strategy, outcome) ==
    LET signed ==
            /\ generate_with_backend(outcome).success
            /\ RLt(Rat(15, 10), strategy.depth_multiplier)
    IN  generate_with_backend(outcome) @@
        [level_text |-> format_1f(self.consciousness_level),
         interactions |-> IF signed THEN self.total_interactions + 1
                          ELSE 0 - 1,
         stage_text |-> IF signed THEN self.knowledge_evolution_stage
                        ELSE "-"]

\* _generate_intelligent_response, as think calls it
intelligent_response(self, path, exists, outcome, strategy) ==
    IF generate_intelligent_response(path, exists, outcome).method
           = "backend_enhanced"
    THEN backend_response(self, strategy, outcome)
    ELSE pure_edu_response(self)

\* think, lines 125-126: a failed response is returned at once
returns_early_never(response_result) == FALSE

returns_early(response_result) == ~response_result.success

-----------------------------------------------------------------------------
(* EDUAI._update_consciousness_level *)

new_level_nohalf(w) == 100 + (w - 100)

new_level(w) == 100 + ((w - 100) * 5) \div 10

update_consciousness_level_nomax(level, w) == new_level(w)

stage_after_update_by_table(stage, count) ==
    IF StageRank(initial_stage(count)) > StageRank(stage)
    THEN initial_stage(count)
    ELSE stage

\* _update_consciousness_level assigns the level and nothing else: the stage
\* it leaves is the stage it found, whatever the count
stage_after_update(stage, count) == stage

update_consciousness_level(level, w) ==
    LET raised == Max(new_level(w), level)
    IN  IF raised > level THEN raised ELSE level

-----------------------------------------------------------------------------
(* EDUAI._trigger_consciousness_evolution, the stage advancement *)

evolved_stage_nocount(stage, count) ==
    IF count >= 1000 /\ stage # "transcendent" THEN "transcendent"
    ELSE IF count >= 100 /\ stage = "developing" THEN "mature"
    ELSE IF stage = "nascent" THEN "developing"
    ELSE stage

evolved_stage_one_step(stage, count) ==
    IF count >= 1000 /\ stage = "mature" THEN "transcendent"
    ELSE IF count >= 100 /\ stage = "developing" THEN "mature"
    ELSE IF count >= 10 /\ stage = "nascent" THEN "developing"
    ELSE stage

evolved_stage(stage, count) ==
    IF count >= 1000 /\ stage # "transcendent" THEN "transcendent"
    ELSE IF count >= 100 /\ stage = "developing" THEN "mature"
    ELSE IF count >= 10 /\ stage = "nascent" THEN "developing"
    ELSE stage

evolved_level_assign(stage, count, level) ==
    IF count >= 1000 /\ stage # "transcendent" THEN 50
    ELSE IF count >= 100 /\ stage = "developing" THEN 30
    ELSE IF count >= 10 /\ stage = "nascent" THEN 20
    ELSE level

evolved_level(stage, count, level) ==
    IF count >= 1000 /\ stage # "transcendent" THEN level + 50
    ELSE IF count >= 100 /\ stage = "developing" THEN level + 30
    ELSE IF count >= 10 /\ stage = "nascent" THEN level + 20
    ELSE level

-----------------------------------------------------------------------------
(* The memory collaborator, EDUFractalMemory.  get_memory_stats answers    *)
(* memInteractions and memWeight as they stand when it is called.          *)

\* process_interaction: one more interaction held; the average weight
\* that results is w
process_interaction(w) ==
    /\ memInteractions' = memInteractions + 1
    /\ memWeight' = w

\* optimize_memory: the average weight that results is w
optimize_memory(w) ==
    /\ memWeight' = w
    /\ UNCHANGED memInteractions

-----------------------------------------------------------------------------
(* Construction: EDUAI.__init__ *)

NewEngine(T, w, path) ==
    /\ memInteractions = T
    /\ memWeight = w
    /\ backend_path = path
    /\ total_interactions = T
    /\ knowledge_evolution_stage = initial_stage(T)
    /\ consciousness_level = initial_level(T)
    /\ result = [op |-> "init", success |-> TRUE, method |-> "-",
                 error |-> "-",
                 evolution_stage |-> "-",
                 before_stage |-> "-", before_level |-> 0]

\* no EDUFormula method has been called
NoCall == [op |-> "none"]

\* a local variable that has not been assigned
Unset == [unset |-> TRUE]

\* no think is running
NoFrame == [stimulus |-> <<>>, start |-> Unset, analysis |-> Unset,
            confidence |-> Zero, strategy |-> Unset, response |-> Unset]

Init ==
    /\ \E T \in InitTotals, w \in Weights, path \in BackendPaths :
           NewEngine(T, w, path)
    /\ fcall = NoCall
    /\ pc = "idle"
    /\ frame = NoFrame

-----------------------------------------------------------------------------
(* EDUAI.think                                                             *)
(*   stim     the stimulus                                                 *)
(*   exists   what os.path.exists(backend_path) answers                    *)
(*   outcome  what the backend command does if it is run                   *)
(*   w        the average weight the memory holds once it has processed    *)
(*            the interaction                                              *)

Think(stim, exists, outcome, w) ==
    LET A == AmplitudeOf(stim)
        X == FrequencyOf(stim)
        response_result ==
            generate_intelligent_response(backend_path, exists, outcome)
    IN  /\ UNCHANGED backend_path
        /\ IF CalculateRaises(A, X)
           THEN \* the ValueError leaves think before any phase has an effect;
                \* result stands for the exception the caller sees
                /\ result' = [op |-> "think", success |-> FALSE,
                              method |-> "-", error |-> "ValueError",
                              evolution_stage |-> "-",
                              before_stage |-> "-", before_level |-> 0]
                /\ UNCHANGED <<total_interactions, consciousness_level,
                               knowledge_evolution_stage, memInteractions,
                               memWeight>>
           ELSE IF returns_early(response_result)
           THEN /\ result' = [op |-> "think",
                              success |-> response_result.success,
                              method |-> response_result.method,
                              error |-> response_result.error,
                              evolution_stage |-> "-",
                              before_stage |-> "-", before_level |-> 0]
                /\ UNCHANGED <<total_interactions, consciousness_level,
                               knowledge_evolution_stage, memInteractions,
                               memWeight>>
           ELSE \* phase 5: _learn_and_evolve, then the metrics
                /\ process_interaction(w)
                /\ total_interactions' = total_interactions + 1
                /\ consciousness_level' =
                       update_consciousness_level(consciousness_level,
                                                  memWeight')
                /\ knowledge_evolution_stage' =
                       stage_after_update(knowledge_evolution_stage,
                                          total_interactions')
                /\ result' = [op |-> "think", success |-> TRUE,
                              method |-> response_result.method,
                              error |-> response_result.error,
                              evolution_stage |-> knowledge_evolution_stage',
                              before_stage |-> "-", before_level |-> 0]

ThinkCall(W) ==
    \E stim \in Stimuli, exists \in BOOLEAN,
       outcome \in BackendOutcomes, w \in W :
        Think(stim, exists, outcome, w)

-----------------------------------------------------------------------------
(* EDUAI._trigger_consciousness_evolution                                  *)
(*   w   the average weight the memory holds once it has been optimized    *)

Evolve(w) ==
    LET updated ==
            update_consciousness_level(consciousness_level, memWeight')
        stage ==
            stage_after_update(knowledge_evolution_stage, total_interactions)
    IN  /\ optimize_memory(w)
        /\ knowledge_evolution_stage' =
               evolved_stage(stage, total_interactions)
        /\ consciousness_level' =
               evolved_level(stage, total_interactions, updated)
        /\ result' = [op |-> "evolve", success |-> TRUE, method |-> "-",
                      error |-> "-",
                      evolution_stage |-> "-",
                      before_stage |-> knowledge_evolution_stage,
                      before_level |-> consciousness_level]
        /\ UNCHANGED <<total_interactions, backend_path>>

EvolveCall(W) == \E w \in W : Evolve(w)

-----------------------------------------------------------------------------
(* Specifications *)

\* counts within MaxCalls think calls of a total an engine may start from
Explored(n) == \E T \in InitTotals : T <= n /\ n < T + MaxCalls

\* any caller, any inputs, while the count is within the explored range
Next ==
    \/ Explored(total_interactions) /\ ThinkCall(Weights)
           /\ UNCHANGED <<fcall, pc, frame>>
    \/ EvolveCall(Weights) /\ UNCHANGED <<fcall, pc, frame>>

Spec == Init /\ [][Next]_vars

\* a whole lifetime of a standalone engine whose memory keeps weight 1.0
LifetimeInit ==
    /\ \E T \in LifetimeTotals : NewEngine(T, 100, NoBackend)
    /\ fcall = NoCall
    /\ pc = "idle"
    /\ frame = NoFrame

LifetimeNext ==
    \/ total_interactions < MaxLifetime /\ ThinkCall({100})
           /\ UNCHANGED <<fcall, pc, frame>>
    \/ EvolveCall({100}) /\ UNCHANGED <<fcall, pc, frame>>

LifetimeSpec == LifetimeInit /\ [][LifetimeNext]_vars

-----------------------------------------------------------------------------
(* The formula on its own: any caller of EDUFormula, any arguments.  The     *)
(* methods read the constants and assign nothing, so a                       *)
(* behaviour is one call: fcall is NoCall before it and the call and what    *)
(* it gave after it.                                                         *)

Amplitudes == { Num(0 - 1), Rat(0 - 1, 2), Zero, Rat(1, 2), Num(128),
                Rat(509, 2), Num(255), Rat(511, 2), Num(300) }

Frequencies == { Num(0 - 1), Zero, Rat(1, 2), Num(1), Num(10), Num(440) }

Calculate(A, X) ==
    /\ fcall = NoCall
    /\ fcall' = [op |-> "calculate", A |-> A, X |-> X,
                 ret |-> calculate(A, X)]
    /\ UNCHANGED <<engine, pc, frame>>

CalculateCombined(A, X) ==
    /\ fcall = NoCall
    /\ fcall' = [op |-> "calculate_combined", A |-> A, X |-> X,
                 ret |-> calculate_combined(A, X)]
    /\ UNCHANGED <<engine, pc, frame>>

\* sequences over S of length at most n
SeqsUpTo(S, n) == UNION { [1..k -> S] : k \in 0..n }

BatchAmplitudes == { Num(0 - 1), Zero, Num(255), Num(300) }
BatchFrequencies == { Zero, Num(1), Num(10) }

CalculateBatch(A_values, X_values) ==
    /\ fcall = NoCall
    /\ fcall' = [op |-> "calculate_batch",
                 A_values |-> A_values, X_values |-> X_values,
                 ret |-> calculate_batch(A_values, X_values)]
    /\ UNCHANGED <<engine, pc, frame>>

CalculateNumpy(A, X) ==
    /\ fcall = NoCall
    /\ fcall' = [op |-> "calculate_numpy", A_array |-> A, X_array |-> X,
                 ret |-> calculate_numpy(A, X)]
    /\ UNCHANGED <<engine, pc, frame>>

BandFrequencies ==
    { Num(0 - 1), Zero, Rat(49, 100), Rat(1, 2), Num(3), Rat(399, 100),
      Num(4), Num(8), Num(10), Num(13), Num(30), Rat(9999, 100), Num(100),
      Num(1000) }

ClassifyNeuralBand(frequency) ==
    /\ fcall = NoCall
    /\ fcall' = [op |-> "classify_neural_band", frequency |-> frequency,
                 ret |-> classify_neural_band(frequency)]
    /\ UNCHANGED <<engine, pc, frame>>

\* signals: peak magnitude, length, sampling rate
Peaks == { Zero, Rat(1, 2), Num(1), Num(2) }
SignalLengths == {2, 8}
SamplingRates == { Num(0 - 8), Num(8), Num(80), Num(8000) }

AnalyzeSignal(peak, n, sampling_rate, k) ==
    /\ fcall = NoCall
    /\ fcall' = [op |-> "analyze_signal", peak |-> peak, n |-> n,
                 sampling_rate |-> sampling_rate, k |-> k,
                 ret |-> analyze_signal(peak, n, sampling_rate, k)]
    /\ UNCHANGED <<engine, pc, frame>>

FormulaInit ==
    /\ NewEngine(0, 100, NoBackend)
    /\ fcall = NoCall
    /\ pc = "idle"
    /\ frame = NoFrame

FormulaNext ==
    \/ \E A \in Amplitudes, X \in Frequencies : Calculate(A, X)
    \/ \E A \in Amplitudes, X \in Frequencies : CalculateCombined(A, X)
    \/ \E A_values \in SeqsUpTo(BatchAmplitudes, MaxBatch),
          X_values \in SeqsUpTo(BatchFrequencies, MaxBatch) :
           CalculateBatch(A_values, X_values)
    \/ \E A \in SeqsUpTo(BatchAmplitudes, MaxBatch),
          X \in SeqsUpTo(BatchFrequencies, MaxBatch) :
           CalculateNumpy(A, X)
    \/ \E frequency \in BandFrequencies : ClassifyNeuralBand(frequency)
    \/ \E peak \in Peaks, n \in SignalLengths,
          sampling_rate \in SamplingRates :
           \E k \in 0..((n \div 2) - 1) :
               AnalyzeSignal(peak, n, sampling_rate, k)

FormulaSpec == FormulaInit /\ [][FormulaNext]_vars

-----------------------------------------------------------------------------
(* think, phase by phase.  pc names the last phase completed; frame holds   *)
(* the local variables of the call and, in start, the attributes of the     *)
(* engine as they were when the call began.                                 *)

\* the attributes of the engine that make its session state
Self ==
    [consciousness_level |-> consciousness_level,
     total_interactions |-> total_interactions,
     knowledge_evolution_stage |-> knowledge_evolution_stage]

\* totals the memory holds when the engines followed phase by phase are built
PhaseTotals == {0, 99, 1000}

\* think calls followed phase by phase past each total of PhaseTotals
MaxThinks == 2

\* length up to which every text over "a", "A" and the blank is a stimulus
MaxStimulus == 2

LongText == [i \in 1..300 |-> "x"]

Texts ==
    SeqsUpTo({"a", "A", " "}, MaxStimulus)
    \cup { <<"\t", "\n">>,
           <<"c", "r", "e", "a", "t", "e", " ", "a", " ", "d", "e", "s", "i", "g", "n">>,
           <<"C", "r", "e", "a", "t", "e", " ", "d", "e", "s", "i", "g", "n", " ", "u", "n", "i", "q", "u", "e">>,
           <<"b", "r", "a", "i", "n", "s", "t", "o", "r", "m", "i", "n", "g">>,
           <<"t", "h", "i", "n", "k", " ", "o", "f", " ", "i", "t">>,
           LongText }

\* confidences the memory may report
Confidences == { Zero, Rat(7, 10), Num(1) }

\* lines 109-114: phase 1
BeginThink(stimulus) ==
    LET consciousness_analysis ==
            analyze_with_edu_consciousness(Self, stimulus)
    IN  /\ pc = "idle"
        /\ IF consciousness_analysis.raised
           THEN \* the ValueError leaves think
                /\ result' = [op |-> "think", success |-> FALSE,
                              method |-> "-", error |-> "ValueError",
                              evolution_stage |-> "-",
                              before_stage |-> "-", before_level |-> 0]
                /\ UNCHANGED <<pc, frame>>
           ELSE /\ pc' = "analyzed"
                /\ frame' = [NoFrame EXCEPT
                                !.stimulus = stimulus,
                                !.start = Self,
                                !.analysis = consciousness_analysis]
                /\ UNCHANGED result
        /\ UNCHANGED <<total_interactions, consciousness_level,
                       knowledge_evolution_stage, backend_path,
                       memInteractions, memWeight, fcall>>

\* line 117: phase 2, the memory answers with a confidence
ConsultMemory(confidence) ==
    /\ pc = "analyzed"
    /\ pc' = "consulted"
    /\ frame' = [frame EXCEPT !.confidence = confidence]
    /\ UNCHANGED <<engine, fcall>>

\* line 120: phase 3
PickStrategy ==
    /\ pc = "consulted"
    /\ pc' = "planned"
    /\ frame' = [frame EXCEPT
                    !.strategy =
                        determine_response_strategy(frame.analysis,
                                                    frame.confidence)]
    /\ UNCHANGED <<engine, fcall>>

\* line 123: phase 4
Dispatch(exists, outcome) ==
    /\ pc = "planned"
    /\ pc' = "dispatched"
    /\ frame' = [frame EXCEPT
                    !.response =
                        intelligent_response(Self, backend_path, exists,
                                             outcome, frame.strategy)]
    /\ UNCHANGED <<engine, fcall>>

\* lines 125-148: the early return, or phase 5 and the metrics
FinishThink(w) ==
    /\ pc = "dispatched"
    /\ pc' = "idle"
    /\ frame' = NoFrame
    /\ IF returns_early(frame.response)
       THEN UNCHANGED <<total_interactions, consciousness_level,
                        knowledge_evolution_stage, memInteractions,
                        memWeight>>
       ELSE /\ process_interaction(w)
            /\ total_interactions' = total_interactions + 1
            /\ consciousness_level' =
                   update_consciousness_level(consciousness_level,
                                              memWeight')
            /\ knowledge_evolution_stage' =
                   stage_after_update(knowledge_evolution_stage,
                                      total_interactions')
    /\ result' = [op |-> "think",
                  success |-> frame.response.success,
                  method |-> frame.response.method,
                  error |-> frame.response.error,
                  evolution_stage |->
                      IF frame.response.success
                      THEN knowledge_evolution_stage' ELSE "-",
                  before_stage |-> "-", before_level |-> 0]
    /\ UNCHANGED <<backend_path, fcall>>

PhaseInit ==
    /\ \E T \in PhaseTotals, path \in BackendPaths :
           NewEngine(T, 100, path)
    /\ fcall = NoCall
    /\ pc = "idle"
    /\ frame = NoFrame

PhaseExplored(n) == \E T \in PhaseTotals : T <= n /\ n < T + MaxThinks

PhaseNext ==
    \/ /\ PhaseExplored(total_interactions)
       /\ \E stimulus \in Texts : BeginThink(stimulus)
    \/ \E confidence \in Confidences : ConsultMemory(confidence)
    \/ PickStrategy
    \/ \E exists \in BOOLEAN, outcome \in BackendOutcomes :
           Dispatch(exists, outcome)
    \/ \E w \in Weights : FinishThink(w)

PhaseSpec == PhaseInit /\ [][PhaseNext]_vars

\* the two bounds of pi decide every comparison of a running think alike
PiBoundsAgree ==
    pc # "idle" =>
        LET c == frame.analysis.edu_consciousness_factor
            T == RMul(Num(50), Rat(frame.start.consciousness_level, 100))
        IN  \A t \in {Num(100), Num(30), RMul(T, Num(2)), T,
                      RMul(T, Rat(1, 2))} :
                RLt(t, RMul(c, PI_LOW)) <=> RLt(t, RMul(c, PI_HIGH))

-----------------------------------------------------------------------------
(* The analysis and the strategy on their own: the methods of the engine   *)
(* that assign nothing, called once on any argument.                       *)

\* an engine as construction leaves it over a memory of T interactions
SelfAt(T) ==
    [consciousness_level |-> initial_level(T),
     total_interactions |-> T,
     knowledge_evolution_stage |-> initial_stage(T)]

AnalysisTotals == {0, 10, 100, 1000}

\* lengths and numbers of distinct words of stimuli
AnalysisStimuli ==
    { stim \in [len : {0, 1, 13, 15, 20, 100, 255, 300},
                words : {0, 1, 2, 3, 13, 40}] :
          /\ stim.len = 0 <=> stim.words = 0
          /\ 2 * stim.words <= stim.len + 1 }

\* values of the factor: about the thresholds of the mode, and at the
\* multiples of 50 * level about the thresholds of the depth
FactorValues(self) ==
    { Zero, Rat(299, 10), Num(30), Rat(301, 10), Num(99), Num(100),
      Rat(1001, 10), Num(1000) }
    \cup { RMul(m, RMul(Num(50), Rat(self.consciousness_level, 100))) :
              m \in { Rat(1, 4), Rat(1, 2), Rat(51, 100), Num(1),
                      Rat(101, 100), Num(2), Rat(201, 100), Num(3) } }

\* _analyze_with_edu_consciousness on a stimulus
Analyze(self, stim) ==
    /\ fcall = NoCall
    /\ fcall' = [op |-> "analyze", self |-> self, stim |-> stim,
                 analysis |-> analyze_stimulus(self, stim, Zero)]
    /\ UNCHANGED <<engine, pc, frame>>

\* lines 163-171 and _calculate_processing_depth on a factor of a given value
ClassifyFactor(self, value) ==
    /\ fcall = NoCall
    /\ fcall' = [op |-> "classify_factor", self |-> self, value |-> value,
                 cognitive_mode |-> cognitive_mode_of(value),
                 processing_depth |->
                     calculate_processing_depth(self, value)]
    /\ UNCHANGED <<engine, pc, frame>>

CognitiveModes ==
    {"DEEP_CONTEMPLATION", "ANALYTICAL_THINKING", "INTUITIVE_RESPONSE"}

CreativityScores == { Zero, Rat(1, 3), Rat(1, 2), Rat(2, 3), Num(1) }

MemoryConfidences == { Zero, Rat(7, 10), Rat(71, 100), Num(1) }

\* _determine_response_strategy on an analysis and a confidence
DetermineStrategy(cognitive_mode, creativity_req, memory_confidence) ==
    /\ fcall = NoCall
    /\ fcall' = [op |-> "determine_response_strategy",
                 cognitive_mode |-> cognitive_mode,
                 creativity_requirement |-> creativity_req,
                 confidence |-> memory_confidence,
                 strategy |->
                     determine_response_strategy(
                         [cognitive_mode |-> cognitive_mode,
                          creativity_requirement |-> creativity_req],
                         memory_confidence)]
    /\ UNCHANGED <<engine, pc, frame>>

AnalysisInit ==
    /\ NewEngine(0, 100, NoBackend)
    /\ fcall = NoCall
    /\ pc = "idle"
    /\ frame = NoFrame

AnalysisNext ==
    \/ \E T \in AnalysisTotals, stim \in AnalysisStimuli :
           Analyze(SelfAt(T), stim)
    \/ \E T \in AnalysisTotals :
           \E value \in FactorValues(SelfAt(T)) :
               ClassifyFactor(SelfAt(T), value)
    \/ \E cognitive_mode \in CognitiveModes,
          creativity_req \in CreativityScores,
          memory_confidence \in MemoryConfidences :
           DetermineStrategy(cognitive_mode, creativity_req,
                             memory_confidence)

AnalysisSpec == AnalysisInit /\ [][AnalysisNext]_vars

-----------------------------------------------------------------------------
(* Properties *)

\* the stage the threshold table of the design assigns to a count
TableStage(n) ==
    CASE n < 10                -> "nascent"
      [] n >= 10 /\ n < 100    -> "developing"
      [] n >= 100 /\ n < 1000  -> "mature"
      [] n >= 1000             -> "transcendent"

\* the increment the design attaches to the step into a stage
StageIncrement(s) ==
    CASE s = "developing"   -> 20
      [] s = "mature"       -> 30
      [] s = "transcendent" -> 50

\* C1: over every think call, successful or failed, whatever the stimulus
\* and whatever the memory reports, consciousness_level after the call is
\* at least its value before, and the stage is not earlier than before.
C1_ThinkNeverRegresses ==
    [][ThinkCall(Weights) =>
          /\ consciousness_level' >= consciousness_level
          /\ StageRank(knowledge_evolution_stage') >=
                 StageRank(knowledge_evolution_stage)]_vars

\* a successful think after which the memory reports a weight whose level
\* lies below the level the engine holds
C1_Witness ==
    /\ result.op = "think"
    /\ result.success
    /\ 100 + (memWeight - 100) \div 2 < consciousness_level

\* C2: a freshly constructed engine holds the total T the memory reported,
\* and (nascent, 1.0) for T < 10, (developing, 1.5) for 10 <= T < 100,
\* (mature, 2.0) for 100 <= T < 1000, (transcendent, 3.0) for T >= 1000.
C2_BootstrapTable ==
    result.op = "init" =>
        LET T == memInteractions
            s == knowledge_evolution_stage
            l == consciousness_level
        IN  /\ total_interactions = T
            /\ T < 10 => s = "nascent" /\ l = 100
            /\ (10 <= T /\ T < 100) => s = "developing" /\ l = 150
            /\ (100 <= T /\ T < 1000) => s = "mature" /\ l = 200
            /\ T >= 1000 => s = "transcendent" /\ l = 300
            /\ T = 9 => s = "nascent"
            /\ T = 10 => s = "developing"
            /\ T = 999 => s = "mature"
            /\ T = 1000 => s = "transcendent"

\* an engine bootstrapped exactly on the last threshold
C2_Witness ==
    /\ result.op = "init"
    /\ total_interactions = 1000
    /\ knowledge_evolution_stage = "transcendent"

\* C3: a think that runs the backend (configured, path present) and sees it
\* exit non-zero or time out returns success = FALSE with an error reason,
\* records nothing in the memory and leaves count, level and stage as they
\* were.
C3_BackendFailureStopsThink ==
    [][\A stim \in Stimuli, outcome \in {"nonzero", "timeout"},
          w \in Weights :
          (backend_path # NoBackend /\ Think(stim, TRUE, outcome, w)) =>
              /\ ~result'.success
              /\ result'.error # "-"
              /\ UNCHANGED <<memInteractions, memWeight, total_interactions,
                             consciousness_level,
                             knowledge_evolution_stage>>]_vars

\* a think that ended in the backend's timeout
C3_Witness ==
    /\ result.op = "think"
    /\ ~result.success
    /\ result.method = "backend_enhanced"
    /\ result.error = "Response generation timeout"

\* C4: with no backend configured every think, for every stimulus, returns
\* success = TRUE from the templated path, records the interaction and
\* raises total_interactions by one.
C4_TemplatedPathSucceeds ==
    [][(backend_path = NoBackend /\ ThinkCall(Weights)) =>
          /\ result'.success
          /\ result'.method = "pure_edu_consciousness"
          /\ memInteractions' = memInteractions + 1
          /\ total_interactions' = total_interactions + 1]_vars

\* a standalone engine that has answered from the templated path
C4_Witness ==
    /\ backend_path = NoBackend
    /\ result.op = "think"
    /\ result.success
    /\ result.method = "pure_edu_consciousness"
    /\ memInteractions = 2

\* C5, as stated: the templated response is produced only by engines with
\* no backend configured.
C5_TemplatedOnlyWithoutBackend ==
    (result.op = "think" /\ result.method = "pure_edu_consciousness")
        => backend_path = NoBackend

\* C5, amended: think takes the templated path exactly when no backend is
\* configured or the configured path does not exist when the call
\* dispatches; with a backend configured and its path present the backend
\* is used, and its failure yields a failed result, never the template.
C5_TemplatedIffNoBackendOrMissing ==
    [][\A stim \in Stimuli, exists \in BOOLEAN,
          outcome \in BackendOutcomes, w \in Weights :
          Think(stim, exists, outcome, w) =>
              /\ result'.method = "pure_edu_consciousness"
                     <=> (backend_path = NoBackend \/ ~exists)
              /\ (backend_path # NoBackend /\ exists /\ outcome # "exit0")
                     => ~result'.success]_vars

\* an engine with a backend configured that answered from the template
C5_Witness ==
    /\ backend_path # NoBackend
    /\ result.op = "think"
    /\ result.method = "pure_edu_consciousness"

\* C6: a trigger advances the stage by exactly one step, with that step's
\* increment on top of the updated level, when the count has reached the
\* threshold of a later stage than the current one; otherwise it leaves the
\* stage alone and adds no increment.
C6_TriggerAdvancesOneStep ==
    [][\A w \in Weights :
          Evolve(w) =>
              LET before == knowledge_evolution_stage
                  after  == knowledge_evolution_stage'
                  base   == Max(consciousness_level,
                                100 + (w - 100) \div 2)
              IN  IF StageRank(TableStage(total_interactions))
                         > StageRank(before)
                  THEN /\ StageRank(after) = StageRank(before) + 1
                       /\ consciousness_level' =
                              base + StageIncrement(after)
                  ELSE /\ after = before
                       /\ consciousness_level' = base]_vars

\* C7: a trigger never regresses: whatever weight the memory reports, the
\* stage after it is not earlier and the level after it is not lower.
C7_TriggerNeverRegresses ==
    [][EvolveCall(Weights) =>
          /\ StageRank(knowledge_evolution_stage') >=
                 StageRank(knowledge_evolution_stage)
          /\ consciousness_level' >= consciousness_level]_vars

\* a trigger that advanced the stage while the memory reported a weight
\* whose level lies below the level held before
C7_Witness ==
    /\ result.op = "evolve"
    /\ result.before_stage # knowledge_evolution_stage
    /\ 100 + (memWeight - 100) \div 2 < result.before_level

\* C8, as stated: in every reachable state the stage is the stage the
\* threshold table assigns to the current count.
C8_StageIsTableStage ==
    knowledge_evolution_stage = TableStage(total_interactions)

\* C8, amended: in every reachable state the stage is never later than the
\* stage the threshold table assigns to the current count, and it equals
\* that stage right after construction.
C8_StageAtMostTableStage ==
    /\ StageRank(knowledge_evolution_stage)
           <= StageRank(TableStage(total_interactions))
    /\ result.op = "init" =>
           knowledge_evolution_stage = TableStage(total_interactions)

\* a think has taken the count over the first threshold and the stage is
\* still nascent
C8_Witness ==
    /\ result.op = "think"
    /\ total_interactions >= 10
    /\ knowledge_evolution_stage = "nascent"

\* C9: a successful think records the interaction in the memory, raises
\* total_interactions by exactly one and sets the level to
\* max(old level, 1.0 + (avgWeight - 1.0) * 0.5) for the weight the memory
\* reports after the recording.
C9_SuccessfulThinkRecords ==
    [][(ThinkCall(Weights) /\ result'.success) =>
          /\ memInteractions' = memInteractions + 1
          /\ total_interactions' = total_interactions + 1
          /\ consciousness_level' =
                 Max(consciousness_level, 100 + (memWeight' - 100) \div 2)
          /\ (consciousness_level' # consciousness_level =>
                  100 + (memWeight' - 100) \div 2 > consciousness_level)
      ]_vars

\* a think raised a nascent engine to the level of the weight 2.6
C9_Witness ==
    /\ result.op = "think"
    /\ result.success
    /\ knowledge_evolution_stage = "nascent"
    /\ memWeight = 260
    /\ consciousness_level = 180

\* C10: in every reachable state the level is at least 1.0, the count is
\* not negative and the stage is one of the four stages.
C10_StateRanges ==
    /\ consciousness_level >= 100
    /\ total_interactions >= 0
    /\ knowledge_evolution_stage \in Stages

\* a trigger ran while the memory reported a weight below 1.0 and the
\* level stayed at 1.0
C10_Witness ==
    /\ result.op = "evolve"
    /\ memWeight < 100
    /\ consciousness_level = 100

\* C11: calculate raises ValueError exactly when the frequency is <= 0 or
\* the amplitude is < 0 and returns a (modulation, scaling) pair for every
\* other input; the call changes nothing of the engine or its memory.
C11_CalculateDomain ==
    [][\A A \in Amplitudes, X \in Frequencies :
          Calculate(A, X) =>
              /\ fcall'.ret.raised <=> (X[1] <= 0 \/ A[1] < 0)
              /\ ~fcall'.ret.raised =>
                     DOMAIN fcall'.ret = {"raised", "modulation", "scaling"}
              /\ UNCHANGED engine]_vars

\* a call refused for its negative amplitude alone
C11_Witness ==
    /\ fcall.op = "calculate"
    /\ fcall.ret.raised
    /\ fcall.X[1] > 0
    /\ fcall.A[1] < 0

\* C12: for a valid frequency, every amplitude >= 255 gives what amplitude
\* 255 gives, and an amplitude in [0, 255] is used as it is.
C12_AmplitudeClamped ==
    (fcall.op = "calculate" /\ ~fcall.ret.raised) =>
        IF RLe(Num(255), fcall.A)
        THEN fcall.ret = calculate(Num(255), fcall.X)
        ELSE RMul(fcall.ret.modulation, Num(255)) = fcall.A

\* calculate(300, X) has returned
C12_Witness ==
    /\ fcall.op = "calculate"
    /\ ~fcall.ret.raised
    /\ fcall.A = Num(300)

\* C13: for frequency > 0 and amplitude >= 0, modulation is
\* (min(amplitude, 255) / 255) * pi, within [0, pi], 0 at amplitude 0 and pi
\* from amplitude 255 on; scaling is 406.4 / frequency; calculate_combined
\* returns the product of the two.
C13_ModulationAndScaling ==
    /\ (fcall.op = "calculate" /\ ~fcall.ret.raised) =>
           LET m == fcall.ret.modulation
               k == fcall.ret.scaling
           IN  /\ RLe(Zero, m) /\ RLe(m, Num(1))
               /\ RMul(m, Num(255)) = RMin(fcall.A, Num(255))
               /\ fcall.A = Zero => m = Zero
               /\ RLe(Num(255), fcall.A) => m = Num(1)
               /\ RMul(k, fcall.X) = Rat(4064, 10)
    /\ (fcall.op = "calculate_combined" /\ ~fcall.ret.raised) =>
           LET r == calculate(fcall.A, fcall.X)
           IN  fcall.ret.value = RMul(r.modulation, r.scaling)

\* calculate_combined(128, 440) has returned (128/255)(406.4/440) pi
C13_Witness ==
    /\ fcall.op = "calculate_combined"
    /\ fcall.A = Num(128)
    /\ fcall.X = Num(440)
    /\ ~fcall.ret.raised
    /\ fcall.ret.value = Rat(128 * 4064, 255 * 4400)

\* C14: calculate_batch raises ValueError when the two lists differ in
\* length; for lists of one length it gives, in input order, what calculate
\* gives for each pair, and the error of the first pair calculate refuses.
C14_BatchIsPairwise ==
    fcall.op = "calculate_batch" =>
        LET A_values == fcall.A_values
            X_values == fcall.X_values
            n == Len(A_values)
            refused == {i \in 1..n :
                           calculate(A_values[i], X_values[i]).raised}
        IN  IF n # Len(X_values) THEN fcall.ret.raised
            ELSE IF refused # {} THEN fcall.ret.raised
            ELSE /\ ~fcall.ret.raised
                 /\ Len(fcall.ret.results) = n
                 /\ \A i \in 1..n :
                        LET r == calculate(A_values[i], X_values[i])
                        IN  fcall.ret.results[i] =
                                <<r.modulation, r.scaling>>

\* the batch [(255, 10), (0, 1)] gave [(pi, 40.64), (0, 406.4)]
C14_Witness ==
    /\ fcall.op = "calculate_batch"
    /\ fcall.A_values = <<Num(255), Zero>>
    /\ fcall.X_values = <<Num(10), Num(1)>>
    /\ ~fcall.ret.raised
    /\ fcall.ret.results = << <<Num(1), Rat(4064, 100)>>,
                              <<Zero, Rat(4064, 10)>> >>

\* C15: for arrays of one length, calculate_numpy raises exactly when
\* calculate refuses some pair (a frequency <= 0 or an amplitude < 0), which
\* is exactly when calculate_batch raises, and otherwise both give, element
\* by element, what calculate gives.
C15_VectorizedAgrees ==
    (fcall.op = "calculate_numpy"
     /\ Len(fcall.A_array) = Len(fcall.X_array)) =>
        LET A == fcall.A_array
            X == fcall.X_array
            n == Len(A)
            batch == calculate_batch(A, X)
        IN  /\ fcall.ret.raised <=>
                   \E i \in 1..n : RLe(X[i], Zero) \/ RLt(A[i], Zero)
            /\ fcall.ret.raised <=>
                   \E i \in 1..n : calculate(A[i], X[i]).raised
            /\ fcall.ret.raised <=> batch.raised
            /\ ~fcall.ret.raised =>
                   \A i \in 1..n :
                       LET r == calculate(A[i], X[i])
                       IN  /\ fcall.ret.modulation[i] = r.modulation
                           /\ fcall.ret.scaling[i] = r.scaling
                           /\ batch.results[i] =
                                  <<fcall.ret.modulation[i],
                                    fcall.ret.scaling[i]>>

\* two pairs went through calculate_numpy, one amplitude above 255
C15_Witness ==
    /\ fcall.op = "calculate_numpy"
    /\ fcall.A_array = <<Num(300), Zero>>
    /\ Len(fcall.X_array) = 2
    /\ ~fcall.ret.raised

\* C16: _classify_neural_band gives the band whose half-open range holds the
\* frequency: delta [0.5, 4), theta [4, 8), alpha [8, 13), beta [13, 30),
\* gamma [30, 100), unknown below 0.5 and from 100 on; at most one range
\* holds a frequency.
C16_BandTable ==
    fcall.op = "classify_neural_band" =>
        LET f == fcall.frequency
            band == fcall.ret
            In(lo, hi) == RLe(lo, f) /\ RLt(f, hi)
        IN  /\ band = "delta"   <=> In(Rat(1, 2), Num(4))
            /\ band = "theta"   <=> In(Num(4), Num(8))
            /\ band = "alpha"   <=> In(Num(8), Num(13))
            /\ band = "beta"    <=> In(Num(13), Num(30))
            /\ band = "gamma"   <=> In(Num(30), Num(100))
            /\ band = "unknown" <=> (RLt(f, Rat(1, 2)) \/ RLe(Num(100), f))
            /\ Cardinality({i \in DOMAIN NEURAL_BANDS :
                               /\ RLe(NEURAL_BANDS[i][2], f)
                               /\ RLt(f, NEURAL_BANDS[i][3])}) <= 1
            /\ f = Num(3) => band = "delta"
            /\ f = Num(10) => band = "alpha"
            /\ f = Num(1000) => band = "unknown"
            /\ f = Num(4) => band = "theta"
            /\ f = Num(100) => band = "unknown"

\* the frequency 4, upper end of delta and lower end of theta, is theta
C16_Witness ==
    /\ fcall.op = "classify_neural_band"
    /\ fcall.frequency = Num(4)
    /\ fcall.ret = "theta"

\* C17: analyze_signal never hands calculate a frequency <= 0: a detected
\* dominant frequency <= 0 is replaced by 1.0, and then the frequency, the
\* scaling and the band returned are those of 1.0 (406.4, delta); otherwise
\* they are those of the detected frequency.
C17_DominantFrequencySubstituted ==
    fcall.op = "analyze_signal" =>
        LET detected ==
                Rat(fcall.k * fcall.sampling_rate[1],
                    fcall.n * fcall.sampling_rate[2])
            ret == fcall.ret
        IN  /\ ~ret.raised
            /\ RLt(Zero, ret.dominant_frequency)
            /\ IF RLe(detected, Zero)
               THEN /\ ret.dominant_frequency = Num(1)
                    /\ ret.edu_scaling = Rat(4064, 10)
                    /\ ret.neural_band = "delta"
               ELSE /\ ret.dominant_frequency = detected
                    /\ RMul(ret.edu_scaling, detected) = Rat(4064, 10)
                    /\ ret.neural_band = classify_neural_band(detected)

\* a signal whose strongest bin is the zero-frequency bin was analyzed
C17_Witness ==
    /\ fcall.op = "analyze_signal"
    /\ fcall.k = 0
    /\ RLt(Zero, fcall.peak)
    /\ ~fcall.ret.raised
    /\ fcall.ret.dominant_frequency = Num(1)

\* session states of the level of the running think, with other counts
\* and other stages
OtherSessions ==
    [consciousness_level : {frame.start.consciousness_level},
     total_interactions : {0, 7},
     knowledge_evolution_stage : Stages]

\* C18: the cognitive mode, the processing depth and the numbers of the
\* strategy are a function of the level, the stimulus and the memory's
\* confidence: an engine of the same level gives the same ones whatever its
\* interaction count and its stage, and whatever calls came before.
C18_AnalysisNeedsOnlyLevel ==
    pc \in {"planned", "dispatched"} =>
        /\ frame.strategy =
               determine_response_strategy(
                   analyze_with_edu_consciousness(frame.start,
                                                  frame.stimulus),
                   frame.confidence)
        /\ \A other \in OtherSessions :
               LET analysis ==
                       analyze_with_edu_consciousness(other, frame.stimulus)
               IN  /\ analysis.cognitive_mode = frame.analysis.cognitive_mode
                   /\ analysis.processing_depth =
                          frame.analysis.processing_depth
                   /\ determine_response_strategy(analysis,
                                                  frame.confidence)
                          = frame.strategy

\* a later call of an engine built at 1000 interactions planned the deep,
\* creative, confident strategy for "Create design unique"
C18_Witness ==
    /\ pc = "planned"
    /\ frame.start.total_interactions = 1001
    /\ frame.stimulus = <<"C", "r", "e", "a", "t", "e", " ", "d", "e", "s", "i", "g", "n", " ", "u", "n", "i", "q", "u", "e">>
    /\ frame.analysis.cognitive_mode = "DEEP_CONTEMPLATION"
    /\ frame.analysis.creativity_requirement = Num(1)
    /\ frame.strategy.temperature = Rat(117, 100)
    /\ frame.strategy.creativity_boost = Rat(225, 100)
    /\ frame.strategy.depth_multiplier = Rat(26, 10)

\* C19: while think runs its phases 1 to 4 the level, the stage and the
\* count are those of the start of the call, the analysis is that of the
\* starting level, the templated response carries the starting level, count
\* and stage, and only the step that ends a call whose response succeeded
\* changes them.
C19_SessionChangesAtEndOfThink ==
    [][/\ pc' # "idle" =>
              /\ Self' = frame'.start
              /\ frame'.analysis =
                     analyze_with_edu_consciousness(frame'.start,
                                                    frame'.stimulus)
       /\ (pc' = "dispatched"
           /\ frame'.response.method = "pure_edu_consciousness") =>
              /\ frame'.response.level_text =
                     format_1f(frame'.start.consciousness_level)
              /\ frame'.response.interactions =
                     frame'.start.total_interactions
              /\ frame'.response.stage_text =
                     upper(frame'.start.knowledge_evolution_stage)
       /\ Self' # Self =>
              /\ pc = "dispatched"
              /\ pc' = "idle"
              /\ frame.response.success
              /\ total_interactions' = total_interactions + 1]_vars

\* the second call of an engine built empty has its templated response,
\* which counts one previous interaction
C19_Witness ==
    /\ pc = "dispatched"
    /\ frame.response.method = "pure_edu_consciousness"
    /\ frame.start.total_interactions = 1
    /\ total_interactions = 1
    /\ frame.response.interactions = 1
    /\ frame.response.level_text = 18
    /\ consciousness_level = 180

\* C20: phase 1 of think raises for no text: the amplitude is
\* min(len, 255) >= 0 and the frequency max(distinct lowercased words, 1)
\* >= 1, which calculate accepts; the empty text gives amplitude 0,
\* frequency 1 and factor 0; phases 2 and 3 then complete as well.
C20_AnalysisNeverFails ==
    /\ result.error # "ValueError"
    /\ pc # "idle" =>
           LET analysis == frame.analysis
               words == {lower(word) : word \in split(frame.stimulus)}
           IN  /\ ~analysis.raised
               /\ analysis.A = Min(Len(frame.stimulus), 255)
               /\ analysis.A >= 0
               /\ analysis.X = Max(Cardinality(words), 1)
               /\ analysis.X >= 1
               /\ ~calculate(Num(analysis.A), Num(analysis.X)).raised
               /\ frame.stimulus = <<>> =>
                      /\ analysis.A = 0
                      /\ analysis.X = 1
                      /\ analysis.edu_consciousness_factor = Zero
    /\ pc \in {"planned", "dispatched"} =>
           DOMAIN frame.strategy = DOMAIN base_strategy

\* the empty text went through phases 1 to 3
C20_Witness ==
    /\ pc = "planned"
    /\ frame.stimulus = <<>>
    /\ frame.analysis.A = 0
    /\ frame.analysis.X = 1
    /\ frame.analysis.edu_consciousness_factor = Zero
    /\ frame.analysis.cognitive_mode = "INTUITIVE_RESPONSE"

\* C21: the cognitive mode is decided by the factor modulation * scaling *
\* level with strict thresholds: DEEP_CONTEMPLATION above 100,
\* ANALYTICAL_THINKING above 30 and up to 100, INTUITIVE_RESPONSE up to 30;
\* exactly 100 is analytical and exactly 30 is intuitive.
C21_ModeThresholds ==
    /\ fcall.op = "classify_factor" =>
           LET v == fcall.value
               mode == fcall.cognitive_mode
           IN  /\ mode = "DEEP_CONTEMPLATION" <=> RLt(Num(100), v)
               /\ mode = "ANALYTICAL_THINKING" <=>
                      (RLt(Num(30), v) /\ RLe(v, Num(100)))
               /\ mode = "INTUITIVE_RESPONSE" <=> RLe(v, Num(30))
               /\ v = Num(100) => mode = "ANALYTICAL_THINKING"
               /\ v = Num(30) => mode = "INTUITIVE_RESPONSE"
    /\ fcall.op = "analyze" =>
           LET edu == calculate(Num(Min(fcall.stim.len, 255)),
                                Num(Max(fcall.stim.words, 1)))
               combined ==
                   RMul(RMul(edu.modulation, edu.scaling),
                        Rat(fcall.self.consciousness_level, 100))
               mode == fcall.analysis.cognitive_mode
           IN  /\ fcall.analysis.edu_consciousness_factor = combined
               /\ mode = "DEEP_CONTEMPLATION" <=>
                      RLt(Num(100), RMul(combined, PI_HIGH))
               /\ mode = "INTUITIVE_RESPONSE" <=>
                      RLe(RMul(combined, PI_HIGH), Num(30))

\* a factor of exactly 100 was classified analytical
C21_Witness ==
    /\ fcall.op = "classify_factor"
    /\ fcall.value = Num(100)
    /\ fcall.cognitive_mode = "ANALYTICAL_THINKING"

\* C22: the processing depth is decided against D = 50 * level with strict
\* comparisons: TRANSCENDENT above 2 D, DEEP above D and up to 2 D, MODERATE
\* above D / 2 and up to D, SURFACE otherwise.
C22_DepthThresholds ==
    fcall.op = "classify_factor" =>
        LET v == fcall.value
            D == Rat(50 * fcall.self.consciousness_level, 100)
            twoD == Rat(100 * fcall.self.consciousness_level, 100)
            halfD == Rat(25 * fcall.self.consciousness_level, 100)
            depth == fcall.processing_depth
        IN  /\ depth = "TRANSCENDENT" <=> RLt(twoD, v)
            /\ depth = "DEEP" <=> (RLt(D, v) /\ RLe(v, twoD))
            /\ depth = "MODERATE" <=> (RLt(halfD, v) /\ RLe(v, D))
            /\ depth = "SURFACE" <=> RLe(v, halfD)

\* a factor of exactly twice the threshold of a level 1.5 engine was DEEP
C22_Witness ==
    /\ fcall.op = "classify_factor"
    /\ fcall.self.consciousness_level = 150
    /\ fcall.value = Num(150)
    /\ fcall.processing_depth = "DEEP"

\* the values the design fixes for a cognitive mode
ModeValues(mode) ==
    CASE mode = "DEEP_CONTEMPLATION" ->
            [max_tokens |-> Num(1024), temperature |-> Rat(9, 10),
             top_k |-> Num(50), top_p |-> Rat(98, 100),
             creativity_boost |-> Rat(15, 10), depth_multiplier |-> Num(2)]
      [] mode = "ANALYTICAL_THINKING" ->
            [max_tokens |-> Num(512), temperature |-> Rat(7, 10),
             top_k |-> Num(35), top_p |-> Rat(95, 100),
             creativity_boost |-> Rat(12, 10),
             depth_multiplier |-> Rat(15, 10)]
      [] mode = "INTUITIVE_RESPONSE" ->
            [max_tokens |-> Num(256), temperature |-> Rat(6, 10),
             top_k |-> Num(30), top_p |-> Rat(90, 100),
             creativity_boost |-> Rat(8, 10),
             depth_multiplier |-> Rat(8, 10)]

\* C23: the strategy is the mode's values (the base bundle where the mode
\* fixes none); temperature is multiplied by 1 + 0.3 c and creativity_boost
\* by 1 + 0.5 c only for a creativity requirement c > 0.5; depth_multiplier
\* is multiplied by 1.3 only for a confidence > 0.7; max_tokens, top_k and
\* top_p stay the mode's.
C23_StrategyTable ==
    fcall.op = "determine_response_strategy" =>
        LET fixed == ModeValues(fcall.cognitive_mode)
            c == fcall.creativity_requirement
            creative == RLt(Rat(1, 2), c)
            confident == RLt(Rat(7, 10), fcall.confidence)
            strategy == fcall.strategy
        IN  /\ strategy.max_tokens = fixed.max_tokens
            /\ strategy.top_k = fixed.top_k
            /\ strategy.top_p = fixed.top_p
            /\ strategy.temperature =
                   IF creative
                   THEN RMul(fixed.temperature,
                             RAdd(Num(1), RMul(c, Rat(3, 10))))
                   ELSE fixed.temperature
            /\ strategy.creativity_boost =
                   IF creative
                   THEN RMul(fixed.creativity_boost,
                             RAdd(Num(1), RMul(c, Rat(1, 2))))
                   ELSE fixed.creativity_boost
            /\ strategy.depth_multiplier =
                   IF confident
                   THEN RMul(fixed.depth_multiplier, Rat(13, 10))
                   ELSE fixed.depth_multiplier
            /\ fcall.cognitive_mode = "ANALYTICAL_THINKING" =>
                   /\ fixed.max_tokens = base_strategy.max_tokens
                   /\ fixed.top_p = base_strategy.top_p

\* the analytical strategy for a creativity requirement of 2/3 and a
\* confidence of 0.71: temperature 0.84, boost 1.6, depth 1.95
C23_Witness ==
    /\ fcall.op = "determine_response_strategy"
    /\ fcall.cognitive_mode = "ANALYTICAL_THINKING"
    /\ fcall.creativity_requirement = Rat(2, 3)
    /\ fcall.confidence = Rat(71, 100)
    /\ fcall.strategy.temperature = Rat(84, 100)
    /\ fcall.strategy.creativity_boost = Rat(16, 10)
    /\ fcall.strategy.depth_multiplier = Rat(195, 100)
    /\ fcall.strategy.max_tokens = Num(512)

\* C24, as stated: every field of the strategy is positive, and temperature
\* and creativity_boost are never below the base values 0.8 and 1.0.
C24_NeverBelowBase ==
    fcall.op = "determine_response_strategy" =>
        /\ \A field \in DOMAIN fcall.strategy :
               RLt(Zero, fcall.strategy[field])
        /\ RLe(base_strategy.temperature, fcall.strategy.temperature)
        /\ RLe(base_strategy.creativity_boost,
               fcall.strategy.creativity_boost)

\* C24, amended: every field of the strategy is positive, and the
\* adjustments for creativity and confidence never lower a field: the
\* temperature, creativity_boost and depth_multiplier are never below the
\* values the cognitive mode fixes.
C24_NeverBelowModeValues ==
    fcall.op = "determine_response_strategy" =>
        LET fixed == ModeValues(fcall.cognitive_mode)
        IN  /\ \A field \in DOMAIN fcall.strategy :
                   RLt(Zero, fcall.strategy[field])
            /\ RLe(fixed.temperature, fcall.strategy.temperature)
            /\ RLe(fixed.creativity_boost, fcall.strategy.creativity_boost)
            /\ RLe(fixed.depth_multiplier, fcall.strategy.depth_multiplier)

\* the intuitive strategy at full creativity: temperature 0.78, raised from
\* the mode's 0.6 and still below the base 0.8
C24_Witness ==
    /\ fcall.op = "determine_response_strategy"
    /\ fcall.cognitive_mode = "INTUITIVE_RESPONSE"
    /\ fcall.creativity_requirement = Num(1)
    /\ fcall.strategy.temperature = Rat(78, 100)
    /\ RLt(fcall.strategy.temperature, base_strategy.temperature)

\* C25: in every reachable state the stage is not ahead of the count:
\* developing or later only from 10 interactions, mature or later only from
\* 100, transcendent only from 1000.
C25_StageNotAheadOfCount ==
    /\ knowledge_evolution_stage \in {"developing", "mature", "transcendent"}
           => total_interactions >= 10
    /\ knowledge_evolution_stage \in {"mature", "transcendent"}
           => total_interactions >= 100
    /\ knowledge_evolution_stage = "transcendent"
           => total_interactions >= 1000

\* thinks took a mature engine to 1000 interactions and a trigger then made
\* it transcendent
C25_Witness ==
    /\ result.op = "evolve"
    /\ result.before_stage = "mature"
    /\ knowledge_evolution_stage = "transcendent"
    /\ total_interactions = 1000

C27_ThinkKeepsStage ==
    [][/\ ThinkCall(Weights) =>
              /\ knowledge_evolution_stage' = knowledge_evolution_stage
              /\ result'.success =>
                     result'.evolution_stage = knowledge_evolution_stage
       /\ knowledge_evolution_stage' # knowledge_evolution_stage =>
              EvolveCall(Weights)]_vars

\* a successful think took the count from 999 to 1000 and reported mature
C27_Witness ==
    /\ result.op = "think"
    /\ result.success
    /\ total_interactions = 1000
    /\ knowledge_evolution_stage = "mature"
    /\ result.evolution_stage = "mature"

ModeRank(mode) ==
    CASE mode = "INTUITIVE_RESPONSE"  -> 0
      [] mode = "ANALYTICAL_THINKING" -> 1
      [] mode = "DEEP_CONTEMPLATION"  -> 2

\* the session state with another level
AtLevel(self, level) == [self EXCEPT !.consciousness_level = level]

\* C29: for one stimulus the cognitive mode does not go down, in the order
\* INTUITIVE_RESPONSE < ANALYTICAL_THINKING < DEEP_CONTEMPLATION, when the
\* level goes up; and no think and no trigger takes the mode of a stimulus
\* down.
C29_ModeMonotoneInLevel ==
    [][\A stim \in Stimuli :
          LET mode(self) ==
                  ModeRank(analyze_stimulus(self, stim, Zero).cognitive_mode)
          IN  /\ mode(Self') >= mode(Self)
              /\ \A higher \in {150, 300, 400} :
                     higher >= consciousness_level =>
                         mode(AtLevel(Self, higher)) >= mode(Self)]_vars

\* a trigger raised the level from 1.0 and with it the mode of the
\* stimulus of 11 characters and 2 words from intuitive to analytical
C29_Witness ==
    /\ result.op = "evolve"
    /\ result.before_level = 100
    /\ analyze_stimulus(AtLevel(Self, result.before_level),
                        [len |-> 11, words |-> 2], Zero).cognitive_mode
           = "INTUITIVE_RESPONSE"
    /\ analyze_stimulus(Self, [len |-> 11, words |-> 2],
                        Zero).cognitive_mode
           = "ANALYTICAL_THINKING"

\* the depth the product modulation * scaling alone decides
DepthOfProduct(product) ==
    IF RLt(Num(100), product) THEN "TRANSCENDENT"
    ELSE IF RLt(Num(50), product) THEN "DEEP"
    ELSE IF RLt(Num(25), product) THEN "MODERATE"
    ELSE "SURFACE"

\* C28: the processing depth of a stimulus is decided by modulation *
\* scaling alone (TRANSCENDENT above 100, DEEP above 50, MODERATE above 25,
\* else SURFACE): the same stimulus has the same depth at every level and
\* stage, and a factor has the depth of its quotient by the level.
C28_DepthIndependentOfLevel ==
    /\ fcall.op = "analyze" =>
           LET edu == calculate(Num(Min(fcall.stim.len, 255)),
                                Num(Max(fcall.stim.words, 1)))
               product == RMul(RMul(edu.modulation, edu.scaling), PI_HIGH)
           IN  /\ fcall.analysis.processing_depth = DepthOfProduct(product)
               /\ \A T \in AnalysisTotals, level \in {100, 120, 180, 350} :
                      analyze_stimulus(AtLevel(SelfAt(T), level),
                                       fcall.stim, Zero).processing_depth
                          = fcall.analysis.processing_depth
    /\ fcall.op = "classify_factor" =>
           fcall.processing_depth =
               DepthOfProduct(RDiv(fcall.value,
                                   Rat(fcall.self.consciousness_level, 100)))

\* a stimulus of 13 characters in one word is DEEP for a level 3.0 engine,
\* whose factor for it is above 100
C28_Witness ==
    /\ fcall.op = "analyze"
    /\ fcall.self.consciousness_level = 300
    /\ fcall.stim = [len |-> 13, words |-> 1]
    /\ fcall.analysis.processing_depth = "DEEP"
    /\ fcall.analysis.cognitive_mode = "DEEP_CONTEMPLATION"

=============================================================================
